---- MODULE Spec2Model ----
(***************************************************************************)
(* The request path of the gateway: the reverse-proxy dispatcher           *)
(* (handlers.ProxyHandler) calling a backend through that backend's        *)
(* circuit breaker (middleware.CircuitBreaker), with several requests in   *)
(* flight at once, a wall clock, and the administrative Reset and          *)
(* ForceHalfOpen operations.                                               *)
(*                                                                         *)
(* One step of a request is one critical section of CircuitBreaker.Call    *)
(* together with the request-local code around it:                         *)
(*   ProxyBegin     handler entry and Call's first read of cb.state        *)
(*   CallCheckOpen  Call's open-circuit branch (timeout check)             *)
(*   ProxyComplete  the downstream exchange, Call's bookkeeping of the     *)
(*                  result and the handler's error response                *)
(*                                                                         *)
(* The admission controller (middleware.RateLimiter and its TokenBucket)   *)
(* is followed one critical section at a time as well:                     *)
(*   AllowLookup    RateLimiter.Allow's read of the map under RLock        *)
(*   AllowCreate    its insert-if-absent under Lock                        *)
(*   AllowBucket    TokenBucket.Allow under the bucket's mutex             *)
(* Bucket levels are counted in sixtieths of a token, so that a rate given *)
(* in requests per minute refills a whole number of units per second.      *)
(*                                                                         *)
(* Specifications: Spec and SeqSpec (one breaker, concurrent and           *)
(* sequential callers), LimiterSpec (the admission controller), ChainSpec  *)
(* (one request after the other through the middleware chain, panics       *)
(* included), BackendsSpec (three backends with the readiness and reset    *)
(* endpoints), IsolationSpec (two admission keys next to three backends),  *)
(* LiveSpec (requests without end under fairness), RegistrySpec (the       *)
(* administrative endpoints with any service name), WriterSpec (the calls  *)
(* a handler can make on the logging stage's responseWriter) and           *)
(* ForwardSpec (a proxied request from identity extraction through the     *)
(* Director to the backend).                                               *)
(***************************************************************************)
EXTENDS Integers, Sequences, FiniteSets, TLC

\* ---------------------------------------------------------------- bounds
MaxRequests == 3        \* requests started in one behaviour
MaxTime == 4            \* last clock value
MaxThreshold == 2       \* largest configured maxFailures
MaxBurst == 2           \* largest configured burst
MaxAllows == 5          \* RateLimiter.Allow and GetBreaker calls in one behaviour
MaxArrivals == 2        \* requests entering the middleware chain in one behaviour
MaxWrites == 3          \* calls on the logging stage's responseWriter

\* --------------------------------------------------------- configuration
OpenTimeout == 2        \* cfg.CircuitBreakerTimeout, in clock ticks
RequestTimeout == 1     \* cfg.RequestTimeout, in clock ticks

\* the backend whose breaker is followed; the registry builds the breakers of
\* the other backends with the same constructor and shares nothing between them
Services == {"agent"}
Callers == {1, 2}

\* the backends the gateway is configured with (config.go, main lines 57-59)
Backends == {"agent", "rag", "llm"}

\* ------------------------------------------------------------- constants
StateClosed == 0
StateOpen == 1
StateHalfOpen == 2

ZeroTime == 0           \* time.Time{}; the clock starts after it

StatusOK == 200
StatusBadRequest == 400
StatusUnauthorized == 401
StatusTooManyRequests == 429
StatusInternalServerError == 500
StatusBadGateway == 502
StatusServiceUnavailable == 503
StatusGatewayTimeout == 504

ErrNil == "nil"
ErrCircuitOpen == "circuit breaker is open"
ErrDeadlineExceeded == "context deadline exceeded"
ErrAbortHandler == "net/http: abort Handler"

\* statuses a backend answers with: below, at and above the two thresholds
BackendStatuses == {StatusOK, StatusBadRequest, 499, StatusInternalServerError}

\* what the downstream exchange of one request can come to
\*   response  the backend's answer is relayed before the deadline
\*   error     the transport fails before the deadline
\*   deadline  the deadline expires before the backend answers
\*   late      the answer is relayed and the deadline expires before the
\*             handler looks at ctx.Err()
Outcomes ==
    [kind : {"response", "late"}, code : BackendStatuses]
    \cup {[kind |-> "error", code |-> 0], [kind |-> "deadline", code |-> 0]}

NoOutcome == [kind |-> "none", code |-> 0]
NoRun == 0 - 1

VARIABLES
    now,          \* wall clock
    maxFailures,  \* CircuitBreakerManager.maxFailures
    breakers,     \* CircuitBreakerManager.breakers: service -> CircuitBreaker
    req,          \* per caller: the request it is processing or has processed
    nreq,         \* requests started so far
    run,          \* history: consecutive failures since the breaker was Closed with count 0
    last,         \* history: the last operation, the breaker before it and its time
    limiter,      \* RateLimiter: rate, burst, buckets (key -> *TokenBucket, 0 is absent)
    tb,           \* per key: the TokenBucket instances built for it, in order
    manager,      \* CircuitBreakerManager.breakers by instance: name -> pointer, instances built
    acc,          \* per caller: its RateLimiter.Allow or GetBreaker call under way
    hist,         \* history per key: the results of the Allow calls on it
    nallow,       \* registry calls started so far
    chain,        \* the request passing through the middleware chain, and its response
    rw,           \* the responseWriter of the logging stage, and the status line sent
    fwd           \* a proxied request on its way from AuthMiddleware to the backend

breakerVars == <<maxFailures, breakers, req, nreq, run, last>>
limiterVars == <<limiter, tb, manager, acc, hist, nallow>>
chainVars == <<chain, rw, fwd>>
vars == <<now, breakerVars, limiterVars, chainVars>>

\* ------------------------------------------------------- circuit breaker
NewCircuitBreaker ==
    [state |-> StateClosed, failures |-> 0, lastFailTime |-> ZeroTime]

\* Call, lines 39-44: the state Call reads on entry sends it to the
\* open-circuit branch
SeesOpen(cb) == cb.state = StateOpen

\* Call, line 49: may an open breaker be tried again at time t
TimeoutPassedEarly(cb, t) ==
    cb.lastFailTime = ZeroTime \/ t - cb.lastFailTime >= OpenTimeout - 1

TimeoutPassedLate(cb, t) ==
    cb.lastFailTime = ZeroTime \/ t - cb.lastFailTime > OpenTimeout

TimeoutPassed(cb, t) ==
    cb.lastFailTime = ZeroTime \/ t - cb.lastFailTime >= OpenTimeout

\* Call, lines 50-51
ToHalfOpenStaysOpen(cb) == [cb EXCEPT !.failures = 0]

ToHalfOpen(cb) ==
    [cb EXCEPT !.state = StateHalfOpen, !.failures = 0]

\* Call, lines 63-90: the bookkeeping after fn returned err at time t
RecordResultStrictThreshold(cb, err, t, maxF) ==
    IF err # ErrNil
    THEN LET f == cb.failures + 1 IN
         [state |-> IF cb.state = StateHalfOpen THEN StateOpen
                    ELSE IF f > maxF THEN StateOpen
                    ELSE cb.state,
          failures |-> f,
          lastFailTime |-> t]
    ELSE [cb EXCEPT !.state = IF cb.state = StateHalfOpen THEN StateClosed ELSE @,
                    !.failures = 0]

RecordResultStaleTime(cb, err, t, maxF) ==
    IF err # ErrNil
    THEN LET f == cb.failures + 1 IN
         [state |-> IF cb.state = StateHalfOpen THEN StateOpen
                    ELSE IF f >= maxF THEN StateOpen
                    ELSE cb.state,
          failures |-> f,
          lastFailTime |-> IF cb.state = StateHalfOpen THEN cb.lastFailTime ELSE t]
    ELSE [cb EXCEPT !.state = IF cb.state = StateHalfOpen THEN StateClosed ELSE @,
                    !.failures = 0]

RecordResultKeepsCount(cb, err, t, maxF) ==
    IF err # ErrNil
    THEN LET f == cb.failures + 1 IN
         [state |-> IF cb.state = StateHalfOpen THEN StateOpen
                    ELSE IF f >= maxF THEN StateOpen
                    ELSE cb.state,
          failures |-> f,
          lastFailTime |-> t]
    ELSE [cb EXCEPT !.state = IF cb.state = StateHalfOpen THEN StateClosed ELSE @,
                    !.failures = IF cb.state = StateHalfOpen THEN 0 ELSE @]

RecordResult(cb, err, t, maxF) ==
    IF err # ErrNil
    THEN LET f == cb.failures + 1 IN
         [state |-> IF cb.state = StateHalfOpen THEN StateOpen
                    ELSE IF f >= maxF THEN StateOpen
                    ELSE cb.state,
          failures |-> f,
          lastFailTime |-> t]
    ELSE [cb EXCEPT !.state = IF cb.state = StateHalfOpen THEN StateClosed ELSE @,
                    !.failures = 0]

\* CircuitBreaker.Reset
CircuitBreakerResetKeepsTime(cb) ==
    [cb EXCEPT !.state = StateClosed, !.failures = 0]

CircuitBreakerReset(cb) ==
    [state |-> StateClosed, failures |-> 0, lastFailTime |-> ZeroTime]

\* ReadyHandler after a successful probe of backend s, whose breaker it
\* read in the given state: does it call Reset
ReadyResets(s, state) ==
    IF s = "agent" THEN state # StateClosed ELSE state = StateOpen

\* CircuitBreaker.ForceHalfOpen
CircuitBreakerForceHalfOpen(cb) ==
    [cb EXCEPT !.state = StateHalfOpen, !.lastFailTime = ZeroTime]

\* ------------------------------------------------------ response writers
\* The caller's http.ResponseWriter (codes: the WriteHeader calls it got;
\* bodies: the bodies written to it) with the statusResponseWriter fields
\* the handler wraps around it.
NewWriter ==
    [statusCode |-> 0, written |-> FALSE, codes |-> <<>>, bodies |-> <<>>]

\* http.ResponseWriter.Write sends an implicit 200 header when none was sent
RawWrite(w, body) ==
    [w EXCEPT !.codes = IF @ = <<>> THEN <<StatusOK>> ELSE @,
              !.bodies = Append(@, body)]

RawWriteHeader(w, code) ==
    [w EXCEPT !.codes = Append(@, code)]

\* statusResponseWriter.WriteHeader
SrwWriteHeader(w, code) ==
    RawWriteHeader([w EXCEPT !.written = TRUE, !.statusCode = code], code)

\* statusResponseWriter.Write
SrwWrite(w, body) ==
    RawWrite([w EXCEPT !.written = TRUE,
                       !.statusCode = IF @ = 0 THEN StatusOK ELSE @], body)

\* writeErrorWithCORS on the wrapper (from proxy.ErrorHandler) and on the
\* caller's writer itself (from the handler)
WriteErrorWrapped(w, message, code) ==
    SrwWrite(SrwWriteHeader(w, code), message)

WriteErrorRaw(w, message, code) ==
    RawWrite(RawWriteHeader(w, code), message)

\* proxy.ErrorHandler
ErrorHandler(w) ==
    WriteErrorWrapped(w, "Service unavailable", StatusBadGateway)

\* proxy.ServeHTTP(statusWriter, reqWithCtx): a backend answer is relayed
\* through the wrapper; a failed round trip (the expired deadline included)
\* goes to proxy.ErrorHandler
ServeHTTP(w, o) ==
    IF o.kind \in {"response", "late"}
    THEN SrwWrite(SrwWriteHeader(w, o.code), "backend")
    ELSE ErrorHandler(w)

\* ctx.Err() == context.DeadlineExceeded after ServeHTTP returned
DeadlineExceeded(o) == o.kind \in {"deadline", "late"}

\* the function handed to breaker.Call, lines 315-332: its error
FnResultCountsClientErrors(w, o) ==
    IF DeadlineExceeded(o) THEN ErrDeadlineExceeded
    ELSE IF w.statusCode >= StatusBadRequest THEN ErrAbortHandler
    ELSE ErrNil

FnResultSkips500(w, o) ==
    IF DeadlineExceeded(o) THEN ErrDeadlineExceeded
    ELSE IF w.statusCode > StatusInternalServerError THEN ErrAbortHandler
    ELSE ErrNil

FnResultCountsAbove400(w, o) ==
    IF DeadlineExceeded(o) THEN ErrDeadlineExceeded
    ELSE IF w.statusCode > StatusBadRequest THEN ErrAbortHandler
    ELSE ErrNil

FnResult(w, o) ==
    IF DeadlineExceeded(o) THEN ErrDeadlineExceeded
    ELSE IF w.statusCode >= StatusInternalServerError THEN ErrAbortHandler
    ELSE ErrNil

\* the handler after breaker.Call returned err, lines 340-359
HandleErrorAlwaysWrites(w, err) ==
    IF err = ErrNil THEN w
    ELSE IF err = ErrDeadlineExceeded
    THEN WriteErrorRaw(w, "Request timeout", StatusGatewayTimeout)
    ELSE IF err = ErrCircuitOpen
    THEN WriteErrorRaw(w, "Service unavailable", StatusServiceUnavailable)
    ELSE WriteErrorRaw(w, "Service error", StatusBadGateway)

HandleError(w, err) ==
    IF err = ErrNil THEN w
    ELSE IF err = ErrDeadlineExceeded
    THEN IF ~w.written
         THEN WriteErrorRaw(w, "Request timeout", StatusGatewayTimeout)
         ELSE w
    ELSE IF err = ErrCircuitOpen
    THEN IF ~w.written
         THEN WriteErrorRaw(w, "Service unavailable", StatusServiceUnavailable)
         ELSE w
    ELSE IF ~w.written
         THEN WriteErrorRaw(w, "Service error", StatusBadGateway)
         ELSE w

\* ---------------------------------------------------------- rate limiter
\* one token, in the units bucket levels are counted in: NewTokenBucket
\* divides the rate per minute by 60.0 to get tokens per second
TokenUnit == 60

\* configured rates (requests per minute): more than a second per token, one
\* second per token, the default, and two tokens per second
Rates == {40, 60, 100, 120}
DefaultRate == 100

\* admission keys: remote addresses and caller ids
RemoteAddrs == {"10.0.0.1:4001", "10.0.0.2:4002"}
Users == {"user-1"}
Keys == RemoteAddrs \cup Users

\* the names GetBreaker is called with
BreakerNames == {"agent", "rag"}

Min(a, b) == IF a < b THEN a ELSE b

CeilDiv(a, b) == (a + b - 1) \div b

\* NewTokenBucket(rate, burst) at time t
NewTokenBucket(rate, burst, t) ==
    [rate |-> rate, capacity |-> burst * TokenUnit,
     tokens |-> burst * TokenUnit, lastUpdate |-> t]

\* TokenBucket.Allow lines 34-39: the level after the refill at time t
RefillUncapped(b, t) ==
    b.tokens + (t - b.lastUpdate) * b.rate

Refill(b, t) ==
    Min(b.capacity, b.tokens + (t - b.lastUpdate) * b.rate)

\* TokenBucket.Allow lines 47-49: time.Duration(needed / tb.rate) drops the
\* fraction of the quotient before it is scaled to seconds
WaitTime(level, rate) == (TokenUnit - level) \div rate

\* TokenBucket.Allow at time t: the bucket afterwards, the verdict, the wait
\* in seconds, and the level the verdict was taken on
TokenBucketAllowFreeAtCapacity(b, t) ==
    LET level == Refill(b, t) IN
    IF level >= TokenUnit
    THEN [bucket |-> [b EXCEPT !.tokens = IF level = b.capacity THEN level
                                          ELSE level - TokenUnit,
                               !.lastUpdate = t],
          allowed |-> TRUE, wait |-> 0, level |-> level]
    ELSE [bucket |-> [b EXCEPT !.tokens = level, !.lastUpdate = t],
          allowed |-> FALSE, wait |-> WaitTime(level, b.rate), level |-> level]

TokenBucketAllowSpendsOnDenial(b, t) ==
    LET level == Refill(b, t) IN
    IF level >= TokenUnit
    THEN [bucket |-> [b EXCEPT !.tokens = level - TokenUnit, !.lastUpdate = t],
          allowed |-> TRUE, wait |-> 0, level |-> level]
    ELSE [bucket |-> [b EXCEPT !.tokens = level - TokenUnit, !.lastUpdate = t],
          allowed |-> FALSE, wait |-> WaitTime(level, b.rate), level |-> level]

TokenBucketAllowStaleUpdate(b, t) ==
    LET level == Refill(b, t) IN
    IF level >= TokenUnit
    THEN [bucket |-> [b EXCEPT !.tokens = level - TokenUnit],
          allowed |-> TRUE, wait |-> 0, level |-> level]
    ELSE [bucket |-> [b EXCEPT !.tokens = level, !.lastUpdate = t],
          allowed |-> FALSE, wait |-> WaitTime(level, b.rate), level |-> level]

TokenBucketAllow(b, t) ==
    LET level == Refill(b, t) IN
    IF level >= TokenUnit
    THEN [bucket |-> [b EXCEPT !.tokens = level - TokenUnit, !.lastUpdate = t],
          allowed |-> TRUE, wait |-> 0, level |-> level]
    ELSE [bucket |-> [b EXCEPT !.tokens = level, !.lastUpdate = t],
          allowed |-> FALSE, wait |-> WaitTime(level, b.rate), level |-> level]

\* NewRateLimiter(rate, burst)
NewRateLimiter(rate, burst) ==
    [rate |-> rate, burst |-> burst, buckets |-> [k \in Keys |-> 0]]

\* RateLimiter.Allow lines 78-85, under rl.mu.Lock: the map entry of a key
\* (entry) and the instances built for it (made) afterwards
InsertBucketUnchecked(entry, made) ==
    [entry |-> made + 1, made |-> made + 1]

InsertBucket(entry, made) ==
    IF entry # 0 THEN [entry |-> entry, made |-> made]
    ELSE [entry |-> made + 1, made |-> made + 1]

\* CircuitBreakerManager.GetBreaker lines 150-158, under cbm.mu.Lock
InsertBreaker(entry, made) ==
    IF entry # 0 THEN [entry |-> entry, made |-> made]
    ELSE [entry |-> made + 1, made |-> made + 1]

NewManager ==
    [n \in BreakerNames |-> [entry |-> 0, made |-> 0]]

\* a registry call: where it stands (pc), the registry (on), the key and the
\* instance it got hold of (ref)
IdleCall == [pc |-> "idle", on |-> "limiter", key |-> "", ref |-> 0]

\* the results of the Allow calls on one key: how many returned (n), how many
\* were allowed (ok), when the key's first bucket was built (born), and the
\* last three results, the latest first; a result is marked overlap when
\* another Allow call on the key was under way while it was taken
NoHistory == [n |-> 0, ok |-> 0, born |-> 0, res |-> <<>>]

Recorded(h, r, t, overlap) ==
    [h EXCEPT !.n = @ + 1,
              !.ok = IF r.allowed THEN @ + 1 ELSE @,
              !.res = SubSeq(<<[allowed |-> r.allowed, wait |-> r.wait,
                                level |-> r.level, at |-> t,
                                overlap |-> overlap]>> \o @,
                             1, Min(Len(@) + 1, 3))]

\* ------------------------------------------------------ middleware chain
\* main lines 38-59: Recovery, CORS, Logging and RateLimit wrap every route,
\* Auth wraps the /api routes only; the routes followed here
Paths == {"/health", "/ready", "/api/agent/chat"}
ApiPath(path) == path = "/api/agent/chat"

\* RateLimitMiddleware line 96: the paths that skip the limiter
ExemptHealthOnly(path) == path = "/health"

Exempt(path) == path = "/health" \/ path = "/ready"

Origins == {"", "https://xynenyx.com"}
OriginAllowed(origin) == origin = "https://xynenyx.com"

\* what AuthMiddleware finds in the Authorization header
AuthKinds == {"missing", "malformed", "invalid", "valid"}
JwtErrorText == "signature is invalid"

\* AuthMiddleware lines 33-53: the header is there, has the form
\* "Bearer <token>", and validateJWT accepts the token
TokenValidAnyBearer(auth) == auth \in {"invalid", "valid"}

TokenValid(auth) == auth = "valid"

\* CORSMiddleware line 23: the request is a preflight request
PreflightNever(rq) == FALSE

Preflight(rq) == rq.method = "OPTIONS"

\* requests as the server hands them to the chain: GETs of the exempt
\* paths, GETs of an API path with every kind of Authorization header (a
\* valid token carries the caller id user-1), with and without a request id
\* and an Origin, and preflight requests
Requests ==
    [method : {"GET"}, path : {"/health", "/ready"}, origin : {""},
     reqid : {""}, auth : {"missing"}, remote : RemoteAddrs]
    \cup [method : {"GET"}, path : {"/api/agent/chat"}, origin : {""},
          reqid : {"", "req-1"}, auth : AuthKinds, remote : RemoteAddrs]
    \cup [method : {"GET"}, path : {"/api/agent/chat"},
          origin : {"https://xynenyx.com"}, reqid : {""}, auth : {"valid"},
          remote : {"10.0.0.1:4001"}]
    \cup [method : {"OPTIONS"}, path : {"/api/agent/chat"}, origin : Origins,
          reqid : {""}, auth : {"missing"}, remote : {"10.0.0.1:4001"}]

NoRequest ==
    [method |-> "GET", path |-> "/health", origin |-> "", reqid |-> "",
     auth |-> "missing", remote |-> "10.0.0.1:4001"]

\* the context of a request the server hands over holds no caller id
NewContextUser == ""

\* GetUserID(r), then ratelimit.go lines 102-106
AdmissionKey(ctxUser, remote) ==
    IF ctxUser = "" THEN remote ELSE ctxUser

\* formatRetryAfter: the whole seconds of the wait, at least 1, in decimal
FormatRetryAfterUnclamped(wait) == ToString(wait)

FormatRetryAfter(wait) == IF wait < 1 THEN "1" ELSE ToString(wait)

\* RateLimiter.Allow(key) at time t run in one piece: the limiter and the
\* buckets afterwards, and the verdict
RateLimiterAllow(lim, buckets, key, t) ==
    LET ins == InsertBucket(lim.buckets[key], Len(buckets[key]))
        built == IF ins.made > Len(buckets[key])
                 THEN [buckets EXCEPT ![key] =
                         Append(@, NewTokenBucket(lim.rate, lim.burst, t))]
                 ELSE buckets
        r == TokenBucketAllow(built[key][ins.entry], t) IN
    [limiter |-> [lim EXCEPT !.buckets[key] = ins.entry],
     tb |-> [built EXCEPT ![key][ins.entry] = r.bucket],
     allowed |-> r.allowed, wait |-> r.wait]

\* response headers: pairs of name and value
SetHeader(h, name, value) ==
    {p \in h : p[1] # name} \cup {<<name, value>>}

HasHeader(h, name) == \E p \in h : p[1] = name

\* CORSMiddleware lines 14-20 and 32-35
CorsHeaders(rq) ==
    IF OriginAllowed(rq.origin)
    THEN {<<"Access-Control-Allow-Origin", rq.origin>>,
          <<"Access-Control-Allow-Credentials", "true">>}
    ELSE {}

\* CORSMiddleware lines 24-26
PreflightHeaders ==
    {<<"Access-Control-Allow-Methods", "GET, POST, PUT, DELETE, OPTIONS">>,
     <<"Access-Control-Allow-Headers",
       "Authorization, Content-Type, X-Request-ID, X-User-ID">>,
     <<"Access-Control-Max-Age", "3600">>}

\* LoggingMiddleware lines 30-34: the id is put on the request's headers
RequestID(rq) == IF rq.reqid = "" THEN "generated-uuid" ELSE rq.reqid

NoResponse == [codes |-> <<>>, bodies |-> <<>>, headers |-> {}]
NoEntry == [requestID |-> "", userID |-> "", method |-> "", path |-> "", status |-> 0]

\* http.Error(w, message, code): the headers it sets reach the caller only
\* when no status line was sent before
HttpError(resp, message, code) ==
    [codes |-> Append(resp.codes, code),
     bodies |-> Append(resp.bodies, message),
     headers |-> IF resp.codes = <<>>
                 THEN SetHeader(SetHeader(resp.headers,
                          "Content-Type", "text/plain; charset=utf-8"),
                          "X-Content-Type-Options", "nosniff")
                 ELSE resp.headers]

\* the handlers that answer with a JSON document
WriteJSON(resp, body, code) ==
    [codes |-> Append(resp.codes, code),
     bodies |-> Append(resp.bodies, body),
     headers |-> SetHeader(resp.headers, "Content-Type", "application/json")]

\* the status the caller sees, and responseWriter.statusCode of the logging
\* stage (200 until WriteHeader is called)
StatusOf(resp) == IF resp.codes = <<>> THEN StatusOK ELSE resp.codes[1]
LoggedStatus(resp) ==
    IF resp.codes = <<>> THEN StatusOK ELSE resp.codes[Len(resp.codes)]

\* the responseWriter LoggingMiddleware hands to the next stage (line 37):
\* statusCode is what the log entry will show, sent is the status line the
\* underlying http.ResponseWriter put on the wire (0: none yet), calls are
\* the calls made so far (0 stands for Write)
NewResponseWriter == [statusCode |-> StatusOK, sent |-> 0, calls |-> <<>>]

\* http.ResponseWriter: only the first WriteHeader or Write sends a status
WireStatus(sent, code) == IF sent = 0 THEN code ELSE sent

\* responseWriter.WriteHeader, logging.go lines 90-93
RwWriteHeader(w, code) ==
    [statusCode |-> code,
     sent |-> WireStatus(w.sent, code),
     calls |-> Append(w.calls, code)]

\* responseWriter.Write, logging.go lines 95-100
RwWrite(w) ==
    [statusCode |-> IF w.statusCode = 0 THEN StatusOK ELSE w.statusCode,
     sent |-> WireStatus(w.sent, StatusOK),
     calls |-> Append(w.calls, 0)]

\* ----------------------------------------------------- the proxied request
\* a path is a sequence of pieces of text, so that strings.HasPrefix and
\* strings.TrimPrefix act on it as they act on the characters
Slash == <<"/">>

HasPrefix(s, prefix) ==
    Len(prefix) <= Len(s) /\ SubSeq(s, 1, Len(prefix)) = prefix

HasSuffix(s, suffix) ==
    /\ Len(suffix) <= Len(s)
    /\ SubSeq(s, Len(s) - Len(suffix) + 1, Len(s)) = suffix

TrimPrefix(s, prefix) ==
    IF HasPrefix(s, prefix) THEN SubSeq(s, Len(prefix) + 1, Len(s)) ELSE s

\* httputil.singleJoiningSlash: how the Director that
\* NewSingleHostReverseProxy builds joins the path of the target URL and
\* the path of the request
SingleJoiningSlash(a, b) ==
    LET aslash == HasSuffix(a, Slash)
        bslash == HasPrefix(b, Slash) IN
    IF aslash /\ bslash THEN a \o Tail(b)
    ELSE IF ~aslash /\ ~bslash THEN a \o Slash \o b
    ELSE a \o b

\* "/api/" + serviceName
ApiPrefix(serviceName) == <<"/", "api", "/", serviceName>>

\* proxy.Director, part_011 lines 247-255, on the path originalDirector left
StripPrefix(path, serviceName) ==
    LET prefix == ApiPrefix(serviceName)
        newPath == TrimPrefix(path, prefix) IN
    IF HasPrefix(path, prefix)
    THEN IF newPath = <<>> THEN Slash ELSE newPath
    ELSE path

\* the headers followed on a proxied request; "" is an absent header
HeaderNames == {"X-User-ID", "Connection", "X-Forwarded-For", "X-Forwarded-Proto"}
NoHeaders == [n \in HeaderNames |-> ""]
RemoteAddr == "10.0.0.1:4001"
ClientIP == "10.0.0.1"

\* getScheme, part_011 lines 364-372, for a connection without TLS
GetScheme(header) ==
    IF header["X-Forwarded-Proto"] # "" THEN header["X-Forwarded-Proto"]
    ELSE "http"

\* httputil.ReverseProxy after the Director returned: the headers the
\* request's Connection header names go, and the Connection header itself
RemoveHopByHopHeaders(header) ==
    [n \in HeaderNames |->
        IF n = "Connection" \/ n = header["Connection"] THEN "" ELSE header[n]]

\* and the address of the client is added to X-Forwarded-For
AppendClientIP(header) ==
    [header EXCEPT !["X-Forwarded-For"] =
        IF @ = "" THEN ClientIP ELSE @ \o ", " \o ClientIP]

\* the backend URLs of the configuration, by their path: none, "/", "/v1"
TargetPaths == {<<>>, Slash, <<"/", "v1">>}
\* what follows /api/{service} in the request path
Remainders == {<<>>, Slash, <<"/", "chat">>, <<"x", "/", "y">>}
ClientUserIDs == {"", "user-1", "user-2"}
ConnectionValues == {"", "close", "X-User-ID"}

NoForward ==
    [stage |-> "idle", serviceName |-> "", target |-> <<>>, path |-> <<>>,
     url |-> <<>>, header |-> NoHeaders, userID |-> ""]

\* the requests with a valid token as the server hands them to the chain
ForwardRequests ==
    {[stage |-> "received", serviceName |-> s, target |-> t,
      path |-> ApiPrefix(s) \o r, url |-> ApiPrefix(s) \o r,
      header |-> [NoHeaders EXCEPT !["X-User-ID"] = u, !["Connection"] = c],
      userID |-> ""] :
        s \in Backends, t \in TargetPaths, r \in Remainders,
        u \in ClientUserIDs, c \in ConnectionValues}

\* AuthMiddleware lines 33-53: the body of its 401
AuthFailure(auth) ==
    IF auth = "missing" THEN "Missing Authorization header"
    ELSE IF auth = "malformed" THEN "Invalid Authorization header format"
    ELSE "Invalid token: " \o JwtErrorText

\* the exchange under way: the request (rq), where it stands, the request id
\* and caller id the stages attached to it, the admission key, whether the
\* limiter was called (consulted) and changed (moved), its verdict and wait,
\* the stages that ran, the response, the log entry, the arrivals so far (n),
\* the dispatcher's request count (started) and the breakers (cb0) on
\* arrival, whether a stage panicked and the record RecoveryMiddleware
\* logged for it (diag)
NoDiag == [value |-> "", stack |-> FALSE, requestID |-> ""]

NoChain ==
    [stage |-> "idle", rq |-> NoRequest, rid |-> "", user |-> "", key |-> "",
     consulted |-> FALSE, moved |-> FALSE, allowed |-> TRUE, wait |-> 0,
     ran |-> {}, resp |-> NoResponse, entry |-> NoEntry, n |-> 0, started |-> 0,
     cb0 |-> [s \in Services |-> NewCircuitBreaker],
     panicked |-> FALSE, diag |-> NoDiag]

\* ------------------------------------------------------------- histories
\* a backend failure in the dispatcher's classification
BackendFailure(o) ==
    \/ o.kind \in {"error", "deadline", "late"}
    \/ o.kind = "response" /\ o.code >= StatusInternalServerError

AtBase(cb) == cb.state = StateClosed /\ cb.failures = 0

\* run[s].failing: Calls whose fn failed, one after the other, since the
\* breaker was Closed with count 0; run[s].bad: the same count taken over the
\* downstream outcomes. NoRun when another operation came in between.
RunAfter(r, cb, failed, bad) ==
    [failing |-> IF AtBase(cb) THEN 0
                 ELSE IF r.failing = NoRun \/ ~failed THEN NoRun
                 ELSE r.failing + 1,
     bad |-> IF ~bad THEN 0 ELSE r.bad + 1]

Idle(c) == req[c].pc = "idle"

\* a trial started by another request is still running on service s
TrialRunning(c, s) ==
    \E d \in Callers \ {c} :
        req[d].pc = "inflight" /\ req[d].svc = s /\ req[d].trial

\* a request: where it stands (pc), its backend (svc), the ticks left until
\* its context's deadline (left), and whether it is the trial that moved the
\* breaker from Open to HalfOpen (trial)
IdleRequest ==
    [pc |-> "idle", svc |-> "agent", left |-> 0, trial |-> FALSE]

\* what the last operation did: the breaker before it (pre), the time (at),
\* and for a request step the caller's writer afterwards (w), the error Call
\* returned (err), the downstream outcome, how often fn was started (ncalls)
\* and whether it was started while another request's trial was running
NoStep ==
    [op |-> "Init", c |-> 0, s |-> "agent", pre |-> NewCircuitBreaker, at |-> 1,
     w |-> NewWriter, err |-> ErrNil, outcome |-> NoOutcome, ncalls |-> 0,
     duringTrial |-> FALSE, healthy |-> {},
     before |-> [b \in Backends |-> NewCircuitBreaker]]

\* ------------------------------------------------------------------ Init
\* main: NewRateLimiter(cfg.RateLimitRequests, cfg.RateLimitBurst) and
\* NewCircuitBreakerManager, nothing registered and no call under way
LimiterStart(rates, bursts) ==
    /\ limiter \in {NewRateLimiter(r, b) : r \in rates, b \in bursts}
    /\ tb = [k \in Keys |-> <<>>]
    /\ manager = NewManager
    /\ acc = [c \in Callers |-> IdleCall]
    /\ hist = [k \in Keys |-> NoHistory]
    /\ nallow = 0

Init ==
    /\ now = 1
    /\ maxFailures \in 1..MaxThreshold
    /\ breakers = [s \in Services |-> NewCircuitBreaker]
    /\ req = [c \in Callers |-> IdleRequest]
    /\ nreq = 0
    /\ run = [s \in Services |-> [failing |-> 0, bad |-> 0]]
    /\ last = NoStep
    /\ LimiterStart({DefaultRate}, {1})
    /\ chain = NoChain
    /\ rw = NewResponseWriter
    /\ fwd = NoForward

\* --------------------------------------------------------------- actions
\* the clock advances; the deadline of every request under way comes nearer
Tick ==
    /\ now < MaxTime
    /\ now' = now + 1
    /\ req' = [c \in Callers |->
                 [req[c] EXCEPT !.left = IF @ > 0 THEN @ - 1 ELSE 0]]
    /\ UNCHANGED <<maxFailures, breakers, nreq, run, last>>
    /\ UNCHANGED <<limiterVars, chainVars>>

\* ProxyHandler lines 296-305 and Call lines 39-41, 61: the handler sets up
\* the deadline and the wrapper, Call reads cb.state, and unless it read Open
\* it goes on to run fn
ProxyEntry(c, s) ==
    /\ Idle(c)
    /\ LET cb == breakers[s]
           open == SeesOpen(cb) IN
       /\ req' = [req EXCEPT ![c] =
              [pc |-> IF open THEN "check" ELSE "inflight",
               svc |-> s, left |-> RequestTimeout, trial |-> FALSE]]
       /\ last' = [NoStep EXCEPT !.op = "Begin", !.c = c, !.s = s, !.pre = cb,
                                 !.at = now,
                                 !.ncalls = IF open THEN 0 ELSE 1,
                                 !.duringTrial = ~open /\ TrialRunning(c, s)]
    /\ UNCHANGED <<now, maxFailures, breakers, run>>
    /\ UNCHANGED <<limiterVars, chainVars>>

\* one of the requests of a behaviour starts
ProxyBegin(c, s) ==
    /\ nreq < MaxRequests
    /\ nreq' = nreq + 1
    /\ ProxyEntry(c, s)

\* Call lines 44-58 (and, when the call is rejected, the handler's lines
\* 336-353)
CallCheckOpen(c) ==
    /\ req[c].pc = "check"
    /\ LET s == req[c].svc
           cb == breakers[s]
           step == [NoStep EXCEPT !.op = "CheckOpen", !.c = c, !.s = s,
                                  !.pre = cb, !.at = now] IN
       IF TimeoutPassed(cb, now)
       THEN /\ breakers' = [breakers EXCEPT ![s] = ToHalfOpen(cb)]
            /\ req' = [req EXCEPT ![c].pc = "inflight", ![c].trial = (cb.state = StateOpen)]
            /\ last' = [step EXCEPT !.ncalls = 1,
                                    !.duringTrial = TrialRunning(c, s)]
       ELSE /\ breakers' = breakers
            /\ req' = [req EXCEPT ![c] = IdleRequest]
            /\ last' = [step EXCEPT !.err = ErrCircuitOpen,
                                    !.w = HandleError(NewWriter, ErrCircuitOpen)]
    /\ UNCHANGED <<now, maxFailures, nreq, run>>
    /\ UNCHANGED <<limiterVars, chainVars>>

\* fn (lines 305-333), Call lines 63-90, handler lines 340-359
ProxyComplete(c, o) ==
    /\ req[c].pc = "inflight"
    /\ DeadlineExceeded(o) <=> req[c].left = 0
    /\ LET s == req[c].svc
           cb == breakers[s]
           w1 == ServeHTTP(NewWriter, o)
           err == FnResult(w1, o)
           cb1 == RecordResult(cb, err, now, maxFailures) IN
       /\ breakers' = [breakers EXCEPT ![s] = cb1]
       /\ req' = [req EXCEPT ![c] = IdleRequest]
       /\ run' = [run EXCEPT ![s] = RunAfter(@, cb1, err # ErrNil, BackendFailure(o))]
       /\ last' = [NoStep EXCEPT !.op = "Complete", !.c = c, !.s = s, !.pre = cb,
                                 !.at = now, !.outcome = o, !.err = err,
                                 !.w = HandleError(w1, err), !.ncalls = 1]
    /\ UNCHANGED <<now, maxFailures, nreq>>
    /\ UNCHANGED <<limiterVars, chainVars>>

\* CircuitBreakerManager.Reset: both branches call CircuitBreaker.Reset
ManagerReset(s) ==
    /\ breakers' = [breakers EXCEPT ![s] = CircuitBreakerReset(@)]
    /\ run' = [run EXCEPT ![s] = [failing |-> 0, bad |-> 0]]
    /\ last' = [NoStep EXCEPT !.op = "Reset", !.s = s, !.pre = breakers[s],
                              !.at = now]
    /\ UNCHANGED <<now, maxFailures, req, nreq>>
    /\ UNCHANGED <<limiterVars, chainVars>>

\* CircuitBreaker.ForceHalfOpen
ForceHalfOpen(s) ==
    /\ breakers' = [breakers EXCEPT ![s] = CircuitBreakerForceHalfOpen(@)]
    /\ run' = [run EXCEPT ![s].failing = NoRun]
    /\ last' = [NoStep EXCEPT !.op = "ForceHalfOpen", !.s = s,
                              !.pre = breakers[s], !.at = now]
    /\ UNCHANGED <<now, maxFailures, req, nreq>>
    /\ UNCHANGED <<limiterVars, chainVars>>

\* another caller is inside RateLimiter.Allow for key k
AllowUnderWay(c, k) ==
    \E d \in Callers \ {c} :
        acc[d].pc # "idle" /\ acc[d].on = "limiter" /\ acc[d].key = k

\* RateLimiter.Allow lines 73-75: the map is read under RLock
AllowLookup(c, k) ==
    /\ acc[c].pc = "idle"
    /\ nallow < MaxAllows
    /\ nallow' = nallow + 1
    /\ acc' = [acc EXCEPT ![c] =
          [pc |-> IF limiter.buckets[k] = 0 THEN "miss" ELSE "have",
           on |-> "limiter", key |-> k, ref |-> limiter.buckets[k]]]
    /\ UNCHANGED <<now, breakerVars, limiter, tb, manager, hist>>
    /\ UNCHANGED chainVars

\* RateLimiter.Allow lines 77-86: the second look and the insert under Lock
AllowCreate(c) ==
    /\ acc[c].pc = "miss"
    /\ acc[c].on = "limiter"
    /\ LET k == acc[c].key
           ins == InsertBucket(limiter.buckets[k], Len(tb[k])) IN
       /\ tb' = IF ins.made > Len(tb[k])
                THEN [tb EXCEPT ![k] =
                        Append(@, NewTokenBucket(limiter.rate, limiter.burst, now))]
                ELSE tb
       /\ limiter' = [limiter EXCEPT !.buckets[k] = ins.entry]
       /\ acc' = [acc EXCEPT ![c].pc = "have", ![c].ref = ins.entry]
       /\ hist' = [hist EXCEPT ![k].born = IF @ = 0 THEN now ELSE @]
    /\ UNCHANGED <<now, breakerVars, manager, nallow>>
    /\ UNCHANGED chainVars

\* bucket.Allow() changes the instance it is called on: instance ref of key k
UpdateBucketOfEveryKey(buckets, k, ref, b) ==
    [x \in DOMAIN buckets |->
        IF Len(buckets[x]) >= ref THEN [buckets[x] EXCEPT ![ref] = b]
        ELSE buckets[x]]

UpdateBucket(buckets, k, ref, b) == [buckets EXCEPT ![k][ref] = b]

\* RateLimiter.Allow line 88: bucket.Allow() on the instance the call holds
AllowBucket(c) ==
    /\ acc[c].pc = "have"
    /\ acc[c].on = "limiter"
    /\ LET k == acc[c].key
           r == TokenBucketAllow(tb[k][acc[c].ref], now) IN
       /\ tb' = UpdateBucket(tb, k, acc[c].ref, r.bucket)
       /\ hist' = [hist EXCEPT ![k] = Recorded(@, r, now, AllowUnderWay(c, k))]
    /\ acc' = [acc EXCEPT ![c] = IdleCall]
    /\ UNCHANGED <<now, breakerVars, limiter, manager, nallow>>
    /\ UNCHANGED chainVars

\* GetBreaker lines 143-145: the map is read under RLock
GetBreakerLookup(c, n) ==
    /\ acc[c].pc = "idle"
    /\ nallow < MaxAllows
    /\ nallow' = nallow + 1
    /\ acc' = [acc EXCEPT ![c] =
          [pc |-> IF manager[n].entry = 0 THEN "miss" ELSE "have",
           on |-> "manager", key |-> n, ref |-> manager[n].entry]]
    /\ UNCHANGED <<now, breakerVars, limiter, tb, manager, hist>>
    /\ UNCHANGED chainVars

\* GetBreaker lines 147-156: the second look and the insert under Lock
GetBreakerCreate(c) ==
    /\ acc[c].pc = "miss"
    /\ acc[c].on = "manager"
    /\ LET n == acc[c].key
           ins == InsertBreaker(manager[n].entry, manager[n].made) IN
       /\ manager' = [manager EXCEPT ![n] = ins]
       /\ acc' = [acc EXCEPT ![c].pc = "have", ![c].ref = ins.entry]
    /\ UNCHANGED <<now, breakerVars, limiter, tb, hist, nallow>>
    /\ UNCHANGED chainVars

\* GetBreaker line 158: the breaker is handed to the caller
GetBreakerReturn(c) ==
    /\ acc[c].pc = "have"
    /\ acc[c].on = "manager"
    /\ acc' = [acc EXCEPT ![c] = IdleCall]
    /\ UNCHANGED <<now, breakerVars, limiter, tb, manager, hist, nallow>>
    /\ UNCHANGED chainVars

\* ReadyHandler (lines 36-98) with the backends in healthy
\* answering its probe: per backend GetState and, by ReadyResets, Reset; the
\* answer is 200 when every backend is healthy
ReadyHandler(healthy) ==
    /\ LET reset == {s \in healthy : ReadyResets(s, breakers[s].state)} IN
       /\ breakers' = [s \in DOMAIN breakers |->
                         IF s \in reset THEN CircuitBreakerReset(breakers[s])
                         ELSE breakers[s]]
       /\ run' = [s \in DOMAIN run |->
                    IF s \in reset THEN [failing |-> 0, bad |-> 0] ELSE run[s]]
    /\ last' = [NoStep EXCEPT !.op = "Ready", !.at = now, !.healthy = healthy,
                              !.before = breakers,
                              !.w = IF healthy = Backends
                                    THEN WriteErrorRaw(NewWriter, "ready", StatusOK)
                                    ELSE WriteErrorRaw(NewWriter, "not ready",
                                                       StatusServiceUnavailable)]
    /\ UNCHANGED <<now, maxFailures, req, nreq>>
    /\ UNCHANGED <<limiterVars, chainVars>>

\* CircuitBreakerManager.GetBreaker on the breaker table b: a name without
\* an entry gets a new breaker, whatever the name
ManagerGetBreaker(b, name) ==
    IF name \in DOMAIN b THEN b
    ELSE [n \in DOMAIN b \cup {name} |->
             IF n \in DOMAIN b THEN b[n] ELSE NewCircuitBreaker]

\* CircuitBreakerResetHandler on the breaker table b with the query
\* parameter service: the table and the response afterwards
CircuitBreakerResetHandlerOpenOnly(b, service) ==
    IF service = ""
    THEN [breakers |-> b,
          w |-> WriteErrorRaw(NewWriter, "service parameter required",
                              StatusBadRequest)]
    ELSE [breakers |-> IF ManagerGetBreaker(b, service)[service].state = StateOpen
                       THEN [ManagerGetBreaker(b, service) EXCEPT
                                ![service] = CircuitBreakerReset(@)]
                       ELSE ManagerGetBreaker(b, service),
          w |-> WriteErrorRaw(NewWriter, "Circuit breaker reset for " \o service,
                              StatusOK)]

CircuitBreakerResetHandler(b, service) ==
    IF service = ""
    THEN [breakers |-> b,
          w |-> WriteErrorRaw(NewWriter, "service parameter required",
                              StatusBadRequest)]
    ELSE [breakers |-> [ManagerGetBreaker(b, service) EXCEPT
                           ![service] = CircuitBreakerReset(@)],
          w |-> WriteErrorRaw(NewWriter, "Circuit breaker reset for " \o service,
                              StatusOK)]

\* POST /gateway/circuit-breaker/reset with the query parameter service
ResetHandler(service) ==
    /\ LET r == CircuitBreakerResetHandler(breakers, service) IN
       /\ breakers' = r.breakers
       /\ run' = [s \in DOMAIN run |->
                    IF s = service THEN [failing |-> 0, bad |-> 0] ELSE run[s]]
       /\ last' = [NoStep EXCEPT !.op = "ResetHandler", !.s = service,
                                 !.at = now, !.before = breakers, !.w = r.w]
    /\ UNCHANGED <<now, maxFailures, req, nreq>>
    /\ UNCHANGED <<limiterVars, chainVars>>

\* ------------------------------------------------- middleware chain steps
\* one request passes through the chain at a time
ChainCaller == 1

CanArrive == chain.stage # "dispatch" /\ chain.n < MaxArrivals

\* RecoveryMiddleware and CORSMiddleware on the way in
Entered(rq) ==
    [NoChain EXCEPT !.rq = rq, !.n = chain.n + 1, !.started = nreq,
                    !.cb0 = breakers,
                    !.ran = {"recovery", "cors"},
                    !.resp.headers = CorsHeaders(rq)]

\* RateLimitMiddleware lines 94-109: the limiter's verdict on the request
Admission(rq) ==
    IF Exempt(rq.path)
    THEN [limiter |-> limiter, tb |-> tb, allowed |-> TRUE, wait |-> 0,
          key |-> "", consulted |-> FALSE]
    ELSE LET k == AdmissionKey(NewContextUser, rq.remote)
             r == RateLimiterAllow(limiter, tb, k, now) IN
         [limiter |-> r.limiter, tb |-> r.tb, allowed |-> r.allowed,
          wait |-> r.wait, key |-> k, consulted |-> TRUE]

\* LoggingMiddleware on the way in and RateLimitMiddleware
Reached(rq) ==
    LET adm == Admission(rq) IN
    [Entered(rq) EXCEPT !.rid = RequestID(rq), !.key = adm.key,
                        !.consulted = adm.consulted,
                        !.allowed = adm.allowed, !.wait = adm.wait,
                        !.moved = (adm.limiter # limiter \/ adm.tb # tb),
                        !.ran = @ \cup {"logging", "ratelimit"}]

\* LoggingMiddleware lines 43-65 on the way out: GetUserID reads the request
\* the stage was given, whose context the later stages did not change
Logged(x) ==
    [x EXCEPT !.stage = "done",
              !.entry = [requestID |-> x.rid, userID |-> NewContextUser,
                         method |-> x.rq.method, path |-> x.rq.path,
                         status |-> LoggedStatus(x.resp)]]

\* CORSMiddleware lines 23-29 answers a preflight request itself
ServePreflight(rq) ==
    /\ CanArrive
    /\ Preflight(rq)
    /\ LET x == Entered(rq) IN
       chain' = [x EXCEPT !.stage = "done",
                          !.resp.headers = @ \cup PreflightHeaders,
                          !.resp.codes = <<StatusOK>>]
    /\ UNCHANGED <<now, breakerVars, limiterVars, rw, fwd>>

\* RateLimitMiddleware lines 109-114: the limiter denies the request
ServeDenied(rq) ==
    /\ CanArrive
    /\ ~Preflight(rq)
    /\ LET adm == Admission(rq)
           x == Reached(rq) IN
       /\ ~adm.allowed
       /\ limiter' = adm.limiter
       /\ tb' = adm.tb
       /\ chain' = Logged([x EXCEPT !.resp =
              HttpError([@ EXCEPT !.headers =
                            SetHeader(@, "Retry-After", FormatRetryAfter(adm.wait))],
                        "Rate limit exceeded", StatusTooManyRequests)])
    /\ UNCHANGED <<now, breakerVars, manager, acc, hist, nallow, rw, fwd>>

\* HealthHandler
ServeHealth(rq) ==
    /\ CanArrive
    /\ ~Preflight(rq)
    /\ rq.path = "/health"
    /\ LET adm == Admission(rq)
           x == Reached(rq) IN
       /\ adm.allowed
       /\ limiter' = adm.limiter
       /\ tb' = adm.tb
       /\ chain' = Logged([x EXCEPT !.ran = @ \cup {"health"},
                                    !.resp = WriteJSON(@, "healthy", StatusOK)])
    /\ UNCHANGED <<now, breakerVars, manager, acc, hist, nallow, rw, fwd>>

\* ReadyHandler: a healthy agent backend gets its breaker reset unless it is
\* Closed; the answer is 200 when every backend is healthy
ServeReady(rq, agentHealthy, othersHealthy) ==
    /\ CanArrive
    /\ ~Preflight(rq)
    /\ rq.path = "/ready"
    /\ LET adm == Admission(rq)
           x == Reached(rq)
           reset == agentHealthy
                    /\ ReadyResets("agent", breakers["agent"].state) IN
       /\ adm.allowed
       /\ limiter' = adm.limiter
       /\ tb' = adm.tb
       /\ IF reset
          THEN /\ breakers' = [breakers EXCEPT !["agent"] = CircuitBreakerReset(@)]
               /\ run' = [run EXCEPT !["agent"] = [failing |-> 0, bad |-> 0]]
               /\ last' = [NoStep EXCEPT !.op = "Reset", !.s = "agent",
                                         !.pre = breakers["agent"], !.at = now]
          ELSE UNCHANGED <<breakers, run, last>>
       /\ chain' = Logged([x EXCEPT !.ran = @ \cup {"ready"},
              !.resp = IF agentHealthy /\ othersHealthy
                       THEN WriteJSON(@, "ready", StatusOK)
                       ELSE WriteJSON(@, "not ready", StatusServiceUnavailable)])
    /\ UNCHANGED <<now, maxFailures, req, nreq, manager, acc, hist, nallow, rw, fwd>>

\* AuthMiddleware lines 33-53: no caller id can be extracted
ServeUnauthorized(rq) ==
    /\ CanArrive
    /\ ~Preflight(rq)
    /\ ApiPath(rq.path)
    /\ ~TokenValid(rq.auth)
    /\ LET adm == Admission(rq)
           x == Reached(rq) IN
       /\ adm.allowed
       /\ limiter' = adm.limiter
       /\ tb' = adm.tb
       /\ chain' = Logged([x EXCEPT !.ran = @ \cup {"auth"},
              !.resp = HttpError(@, AuthFailure(rq.auth), StatusUnauthorized)])
    /\ UNCHANGED <<now, breakerVars, manager, acc, hist, nallow, rw, fwd>>

\* AuthMiddleware lines 55-60: the caller id is attached and the request is
\* handed to the ProxyHandler
ServeApi(rq) ==
    /\ CanArrive
    /\ ~Preflight(rq)
    /\ ApiPath(rq.path)
    /\ TokenValid(rq.auth)
    /\ LET adm == Admission(rq)
           x == Reached(rq) IN
       /\ adm.allowed
       /\ limiter' = adm.limiter
       /\ tb' = adm.tb
       /\ chain' = [x EXCEPT !.stage = "dispatch", !.user = "user-1",
                             !.ran = @ \cup {"auth"}]
    /\ UNCHANGED <<now, breakerVars, manager, acc, hist, nallow, rw, fwd>>

\* the ProxyHandler starts on the request the chain handed over
ChainProxyBegin ==
    /\ chain.stage = "dispatch"
    /\ nreq = chain.started
    /\ ProxyBegin(ChainCaller, "agent")

\* the ProxyHandler returned: what it wrote is the response, with the
\* Content-Type writeErrorWithCORS sets on the gateway's own answers
ChainFinish ==
    /\ chain.stage = "dispatch"
    /\ nreq > chain.started
    /\ Idle(ChainCaller)
    /\ chain' = Logged([chain EXCEPT !.ran = @ \cup {"proxy"},
          !.resp = [codes |-> last.w.codes,
                    bodies |-> last.w.bodies,
                    headers |-> IF last.err # ErrNil /\ last.w.bodies # <<"backend">>
                                THEN SetHeader(@.headers, "Content-Type",
                                               "text/plain; charset=utf-8")
                                ELSE @.headers]])
    /\ UNCHANGED <<now, breakerVars, limiterVars, rw, fwd>>

\* RecoveryMiddleware lines 12-20 after a panic unwound the inner stages:
\* it logs the panic value and the stack, and calls http.Error on the
\* writer the server gave it. LoggingMiddleware has no deferred call, so the
\* unwinding skips its log entry.
Recovered(x, value) ==
    [x EXCEPT !.stage = "done", !.panicked = TRUE,
              !.diag = [value |-> value, stack |-> TRUE, requestID |-> ""],
              !.resp = HttpError(@, "Internal server error",
                                 StatusInternalServerError)]

\* a handler panics before it wrote anything (recovery_test.go lines 11-13)
ServeFault(rq) ==
    /\ CanArrive
    /\ ~Preflight(rq)
    /\ rq.path \in {"/health", "/ready"}
    /\ LET adm == Admission(rq)
           x == Reached(rq) IN
       /\ adm.allowed
       /\ limiter' = adm.limiter
       /\ tb' = adm.tb
       /\ chain' = Recovered([x EXCEPT !.ran = @ \cup {IF rq.path = "/health" THEN "health" ELSE "ready"}],
                             "test panic")
    /\ UNCHANGED <<now, breakerVars, manager, acc, hist, nallow, rw, fwd>>

\* the backend's answer breaks off while the ReverseProxy relays its body:
\* the status line and part of the body are out, and the proxy, running
\* under a server, panics with http.ErrAbortHandler. The panic unwinds fn,
\* Call (lines 63-90 do not run) and the handler.
ChainAbort(code) ==
    /\ chain.stage = "dispatch"
    /\ req[ChainCaller].pc = "inflight"
    /\ LET s == req[ChainCaller].svc
           w1 == SrwWrite(SrwWriteHeader(NewWriter, code), "backend") IN
       /\ req' = [req EXCEPT ![ChainCaller] = IdleRequest]
       /\ run' = [run EXCEPT ![s].failing = NoRun]
       /\ last' = [NoStep EXCEPT !.op = "Abort", !.c = ChainCaller, !.s = s,
                                 !.pre = breakers[s], !.at = now,
                                 !.err = ErrAbortHandler, !.w = w1, !.ncalls = 1]
       /\ chain' = Recovered([chain EXCEPT !.ran = @ \cup {"proxy"},
                                           !.resp.codes = w1.codes,
                                           !.resp.bodies = w1.bodies],
                             ErrAbortHandler)
    /\ UNCHANGED <<now, maxFailures, breakers, nreq, limiterVars, rw, fwd>>

Next ==
    \/ Tick
    \/ \E c \in Callers, s \in Services : ProxyBegin(c, s)
    \/ \E c \in Callers : CallCheckOpen(c)
    \/ \E c \in Callers, o \in Outcomes : ProxyComplete(c, o)
    \/ \E s \in Services : ManagerReset(s)
    \/ \E s \in Services : ForceHalfOpen(s)

Spec == Init /\ [][Next]_vars

\* one operation at a time: an operation begins only when no Call is running
NoneRunning == \A c \in Callers : Idle(c)

SeqNext ==
    \/ Tick
    \/ \E c \in Callers, s \in Services : NoneRunning /\ ProxyBegin(c, s)
    \/ \E c \in Callers : CallCheckOpen(c)
    \/ \E c \in Callers, o \in Outcomes : ProxyComplete(c, o)
    \/ \E s \in Services : NoneRunning /\ ManagerReset(s)
    \/ \E s \in Services : NoneRunning /\ ForceHalfOpen(s)

SeqSpec == Init /\ [][SeqNext]_vars

\* the admission controller and the breaker registry on their own, under
\* concurrent callers, for every configured rate and burst
LimiterKeys == {"10.0.0.1:4001"}

LimiterInit ==
    /\ now = 1
    /\ maxFailures = 1
    /\ breakers = [s \in Services |-> NewCircuitBreaker]
    /\ req = [c \in Callers |-> IdleRequest]
    /\ nreq = 0
    /\ run = [s \in Services |-> [failing |-> 0, bad |-> 0]]
    /\ last = NoStep
    /\ LimiterStart(Rates, 1..MaxBurst)
    /\ chain = NoChain
    /\ rw = NewResponseWriter
    /\ fwd = NoForward

LimiterNext ==
    \/ Tick
    \/ \E c \in Callers, k \in LimiterKeys : AllowLookup(c, k)
    \/ \E c \in Callers : AllowCreate(c)
    \/ \E c \in Callers : AllowBucket(c)
    \/ \E c \in Callers, n \in BreakerNames : GetBreakerLookup(c, n)
    \/ \E c \in Callers : GetBreakerCreate(c)
    \/ \E c \in Callers : GetBreakerReturn(c)

LimiterSpec == LimiterInit /\ [][LimiterNext]_vars

\* one request after the other through the whole middleware chain
ChainNext ==
    \/ Tick
    \/ \E rq \in Requests : ServePreflight(rq)
    \/ \E rq \in Requests : ServeDenied(rq)
    \/ \E rq \in Requests : ServeHealth(rq)
    \/ \E rq \in Requests, a, b \in BOOLEAN : ServeReady(rq, a, b)
    \/ \E rq \in Requests : ServeUnauthorized(rq)
    \/ \E rq \in Requests : ServeApi(rq)
    \/ ChainProxyBegin
    \/ CallCheckOpen(ChainCaller)
    \/ \E o \in Outcomes : ProxyComplete(ChainCaller, o)
    \/ ChainFinish
    \/ \E rq \in Requests : ServeFault(rq)
    \/ \E code \in BackendStatuses : ChainAbort(code)

\* one failure opens the breaker
ChainInit == Init /\ maxFailures = 1

ChainSpec == ChainInit /\ [][ChainNext]_vars

\* every configured backend behind its own breaker, with a request in flight
\* while the readiness and reset endpoints are called
BackendsInit ==
    /\ now = 1
    /\ maxFailures = 1
    /\ breakers = [s \in Backends |-> NewCircuitBreaker]
    /\ req = [c \in Callers |-> IdleRequest]
    /\ nreq = 0
    /\ run = [s \in Backends |-> [failing |-> 0, bad |-> 0]]
    /\ last = NoStep
    /\ LimiterStart({DefaultRate}, {1})
    /\ chain = NoChain
    /\ rw = NewResponseWriter
    /\ fwd = NoForward

BackendsNext ==
    \/ Tick
    \/ \E s \in Backends : ProxyBegin(ChainCaller, s)
    \/ CallCheckOpen(ChainCaller)
    \/ \E o \in Outcomes : ProxyComplete(ChainCaller, o)
    \/ \E healthy \in SUBSET Backends : ReadyHandler(healthy)
    \/ \E service \in {""} \cup Backends : ResetHandler(service)

BackendsSpec == BackendsInit /\ [][BackendsNext]_vars

\* the administrative endpoints called with any service name while requests
\* to the backends go on
RegistryNames == {"", "billing"} \cup Backends

\* GET /gateway/circuit-breaker/state: GetAllStates reads the table
StateHandler ==
    /\ last' = [NoStep EXCEPT !.op = "State", !.at = now, !.before = breakers,
                              !.w = WriteErrorRaw(NewWriter, "states", StatusOK)]
    /\ UNCHANGED <<now, maxFailures, breakers, req, nreq, run>>
    /\ UNCHANGED <<limiterVars, chainVars>>

RegistryNext ==
    \/ \E s \in Backends : ProxyBegin(ChainCaller, s)
    \/ CallCheckOpen(ChainCaller)
    \/ \E o \in Outcomes : ProxyComplete(ChainCaller, o)
    \/ \E service \in RegistryNames : ResetHandler(service)
    \/ StateHandler

RegistrySpec == BackendsInit /\ [][RegistryNext]_vars

\* calls under two keys at the admission controller next to requests to
\* every backend, within one clock tick
IsolationKeys == {"10.0.0.1:4001", "user-1"}

IsolationInit ==
    /\ now = 1
    /\ maxFailures \in 1..MaxThreshold
    /\ breakers = [s \in Backends |-> NewCircuitBreaker]
    /\ req = [c \in Callers |-> IdleRequest]
    /\ nreq = 0
    /\ run = [s \in Backends |-> [failing |-> 0, bad |-> 0]]
    /\ last = NoStep
    /\ LimiterStart({DefaultRate}, {MaxBurst})
    /\ chain = NoChain
    /\ rw = NewResponseWriter
    /\ fwd = NoForward

IsolationNext ==
    \/ \E s \in Backends : ProxyBegin(ChainCaller, s)
    \/ CallCheckOpen(ChainCaller)
    \/ \E o \in Outcomes : ProxyComplete(ChainCaller, o)
    \/ \E k \in IsolationKeys : AllowLookup(ChainCaller, k)
    \/ AllowCreate(ChainCaller)
    \/ AllowBucket(ChainCaller)

IsolationSpec == IsolationInit /\ [][IsolationNext]_vars

\* requests without end under a clock that never stops. The clock value
\* stays at MaxTime once it got there and every recorded time moves back by
\* one instead (a time that is MaxTime - 1 behind is past every timeout).
\* From QuietFrom on the backend answers every request handed to it, with a
\* status below 500 and before the request's deadline.
QuietFrom == MaxTime

Aged(t) == IF t <= 1 THEN t ELSE t - 1

LiveTick ==
    IF now < MaxTime
    THEN Tick
    ELSE /\ breakers' = [s \in DOMAIN breakers |->
                           [breakers[s] EXCEPT !.lastFailTime = Aged(@)]]
         /\ last' = [last EXCEPT !.at = Aged(@), !.pre.lastFailTime = Aged(@)]
         /\ UNCHANGED <<now, maxFailures, req, nreq, run>>
         /\ UNCHANGED <<limiterVars, chainVars>>

LiveBegin(c, s) == ProxyEntry(c, s) /\ UNCHANGED nreq

LiveComplete(c, o) ==
    /\ (now >= QuietFrom /\ req[c].left > 0) => ~BackendFailure(o)
    /\ ProxyComplete(c, o)

LiveNext ==
    \/ LiveTick
    \/ \E c \in Callers, s \in Services : LiveBegin(c, s)
    \/ \E c \in Callers : CallCheckOpen(c)
    \/ \E c \in Callers, o \in Outcomes : LiveComplete(c, o)

\* time keeps advancing, calls keep arriving, and a call that started goes
\* on to its end
LiveFairness ==
    /\ WF_vars(LiveTick)
    /\ \A c \in Callers :
        /\ WF_vars(\E s \in Services : LiveBegin(c, s))
        /\ WF_vars(CallCheckOpen(c))
        /\ WF_vars(\E o \in Outcomes : LiveComplete(c, o))

LiveSpec == Init /\ [][LiveNext]_vars /\ LiveFairness

\* ------------------------------------------- the logging responseWriter
\* a stage behind LoggingMiddleware calls WriteHeader or Write on the
\* responseWriter it was given
WriterWriteHeader(code) ==
    /\ Len(rw.calls) < MaxWrites
    /\ rw' = RwWriteHeader(rw, code)
    /\ UNCHANGED <<now, breakerVars, limiterVars, chain, fwd>>

WriterWrite ==
    /\ Len(rw.calls) < MaxWrites
    /\ rw' = RwWrite(rw)
    /\ UNCHANGED <<now, breakerVars, limiterVars, chain, fwd>>

WriterNext ==
    \/ \E code \in BackendStatuses : WriterWriteHeader(code)
    \/ WriterWrite

WriterSpec == Init /\ [][WriterNext]_vars

\* ----------------------------------------------------- the proxied request
\* claims.UserID of the valid token
ClaimsUserID == "user-1"

ForwardInit ==
    /\ now = 1
    /\ maxFailures = 1
    /\ breakers = [s \in Services |-> NewCircuitBreaker]
    /\ req = [c \in Callers |-> IdleRequest]
    /\ nreq = 0
    /\ run = [s \in Services |-> [failing |-> 0, bad |-> 0]]
    /\ last = NoStep
    /\ LimiterStart({DefaultRate}, {1})
    /\ chain = NoChain
    /\ rw = NewResponseWriter
    /\ fwd \in ForwardRequests

\* AuthMiddleware lines 56-60: the caller id goes into the context and onto
\* the request's X-User-ID header
ForwardAuth ==
    /\ fwd.stage = "received"
    /\ fwd' = [fwd EXCEPT !.stage = "authed",
                          !.userID = ClaimsUserID,
                          !.header["X-User-ID"] = ClaimsUserID]
    /\ UNCHANGED <<now, breakerVars, limiterVars, chain, rw>>

\* proxy.Director, part_011 lines 242-260: the Director of
\* NewSingleHostReverseProxy first, then the prefix and the two headers
ForwardDirector ==
    /\ fwd.stage = "authed"
    /\ fwd' = [fwd EXCEPT
          !.stage = "directed",
          !.url = StripPrefix(SingleJoiningSlash(fwd.target, fwd.url),
                              fwd.serviceName),
          !.header = [fwd.header EXCEPT
                         !["X-Forwarded-For"] = RemoteAddr,
                         !["X-Forwarded-Proto"] = GetScheme(fwd.header)]]
    /\ UNCHANGED <<now, breakerVars, limiterVars, chain, rw>>

\* httputil.ReverseProxy sends the request the Director prepared
ForwardSend ==
    /\ fwd.stage = "directed"
    /\ fwd' = [fwd EXCEPT
          !.stage = "sent",
          !.header = AppendClientIP(RemoveHopByHopHeaders(fwd.header))]
    /\ UNCHANGED <<now, breakerVars, limiterVars, chain, rw>>

ForwardNext == ForwardAuth \/ ForwardDirector \/ ForwardSend

ForwardSpec == ForwardInit /\ [][ForwardNext]_vars

\* ================================================================ claims

\* C1: under sequential calls on a breaker that was Closed with count 0,
\* after k failing Calls in a row the breaker is still Closed while
\* k < maxFailures and is Open once k reaches maxFailures.
C1_ThresholdOpens ==
    \A s \in Services :
        (last.op = "Complete" /\ last.s = s /\ run[s].failing >= 1) =>
            IF run[s].failing < maxFailures
            THEN breakers[s].state = StateClosed
            ELSE breakers[s].state = StateOpen

C1_Witness ==
    /\ last.op = "Complete"
    /\ maxFailures >= 2
    /\ run[last.s].failing = maxFailures
    /\ breakers[last.s].state = StateOpen

\* C2: a Call that finds the breaker Open with less than openTimeout elapsed
\* since lastFailTime returns the circuit-open error, does not start the
\* wrapped operation, and leaves state, failures and lastFailTime as they
\* were; the entry read of an Open breaker starts nothing either.
C2_OpenFailsFast ==
    /\ ( /\ last.op = "CheckOpen"
         /\ last.pre.state = StateOpen
         /\ last.pre.lastFailTime # ZeroTime
         /\ last.at - last.pre.lastFailTime < OpenTimeout )
       => /\ last.err = ErrCircuitOpen
          /\ last.ncalls = 0
          /\ breakers[last.s] = last.pre
    /\ (last.op = "Begin" /\ last.pre.state = StateOpen)
       => /\ last.ncalls = 0
          /\ breakers[last.s] = last.pre

C2_Witness ==
    /\ last.op = "CheckOpen"
    /\ last.err = ErrCircuitOpen
    /\ last.pre.state = StateOpen
    /\ last.pre.failures >= 1
    /\ last.at - last.pre.lastFailTime = OpenTimeout - 1

\* C3: with no other call running, a Call that finds the breaker Open with
\* at least openTimeout elapsed since lastFailTime moves it to HalfOpen and
\* starts the wrapped operation once; and the breaker is HalfOpen only right
\* after such a check or ForceHalfOpen, or while a Call that found it HalfOpen
\* runs: the passing of time alone never makes it HalfOpen.
C3_LazyHalfOpen ==
    /\ ( /\ last.op = "CheckOpen"
         /\ last.pre.state = StateOpen
         /\ last.at - last.pre.lastFailTime >= OpenTimeout )
       => /\ last.ncalls = 1
          /\ breakers[last.s].state = StateHalfOpen
          /\ req[last.c].pc = "inflight"
          /\ req[last.c].trial
    /\ \A s \in Services :
        breakers[s].state = StateHalfOpen =>
            /\ last.s = s
            /\ last.op \in {"CheckOpen", "ForceHalfOpen", "Begin"}
            /\ last.op = "Begin" => last.pre.state = StateHalfOpen

C3_Witness ==
    /\ last.op = "CheckOpen"
    /\ last.pre.state = StateOpen
    /\ last.at - last.pre.lastFailTime = OpenTimeout
    /\ last.at < now
    /\ breakers[last.s].state = StateHalfOpen

\* C4: when the operation of a Call completes on a HalfOpen breaker, a
\* failure leaves the breaker Open with lastFailTime the time of that
\* failure, a success leaves it Closed with failures 0; and an Open breaker
\* is tried only when openTimeout has elapsed since lastFailTime.
C4_TrialOutcome ==
    /\ (last.op = "Complete" /\ last.pre.state = StateHalfOpen)
       => IF last.err # ErrNil
          THEN /\ breakers[last.s].state = StateOpen
               /\ breakers[last.s].lastFailTime = last.at
          ELSE /\ breakers[last.s].state = StateClosed
               /\ breakers[last.s].failures = 0
    /\ (last.op = "CheckOpen" /\ last.pre.state = StateOpen /\ last.ncalls = 1)
       => /\ last.pre.lastFailTime # ZeroTime
          /\ last.at - last.pre.lastFailTime >= OpenTimeout

C4_Witness ==
    /\ last.op = "Complete"
    /\ last.pre.state = StateHalfOpen
    /\ last.err # ErrNil
    /\ last.pre.lastFailTime # ZeroTime
    /\ last.pre.lastFailTime < last.at
    /\ breakers[last.s].lastFailTime = last.at

\* C5: while a trial (the operation of the Call that moved the breaker from
\* Open to HalfOpen) is running, no other Call starts the wrapped operation.
C5_SingleTrial ==
    ~last.duringTrial

\* C6: Reset leaves the breaker Closed with failures 0 and lastFailTime
\* cleared whatever it was before, a second Reset changes nothing, and a Call
\* entering on the breaker as Reset left it starts the wrapped operation.
C6_Reset ==
    /\ last.op = "Reset"
       => /\ breakers[last.s].state = StateClosed
          /\ breakers[last.s].failures = 0
          /\ breakers[last.s].lastFailTime = ZeroTime
          /\ CircuitBreakerReset(breakers[last.s]) = breakers[last.s]
          /\ ~SeesOpen(breakers[last.s])
    /\ (last.op = "Begin" /\ last.pre = CircuitBreakerReset(last.pre))
       => last.ncalls = 1

C6_Witness ==
    /\ last.op = "Reset"
    /\ last.pre.state = StateOpen
    /\ last.pre.failures >= 1
    /\ last.pre.lastFailTime # ZeroTime

\* C7 as stated: every downstream response with status in [400, 500)
\* reaches the caller with that status and never opens the breaker: a Closed
\* breaker stays Closed. (It fails for a response whose request ran past its
\* deadline: Call is handed the deadline error and counts a failure.)
C7_AnyClientError ==
    ( /\ last.op = "Complete"
      /\ last.outcome.kind \in {"response", "late"}
      /\ last.outcome.code >= StatusBadRequest
      /\ last.outcome.code < StatusInternalServerError )
    => /\ last.w.codes = <<last.outcome.code>>
       /\ last.pre.state = StateClosed => breakers[last.s].state = StateClosed

\* C7, amended: a downstream response with status in [400, 500) whose
\* request did not run past its deadline reaches the caller with that status
\* and the backend's body and never opens the breaker: a Closed breaker stays
\* Closed, and the breaker is Open afterwards only if it was Open before.
\* Past the deadline the status is still passed through unchanged.
C7_ClientErrorsPassThrough ==
    /\ ( /\ last.op = "Complete"
         /\ last.outcome.kind = "response"
         /\ last.outcome.code >= StatusBadRequest
         /\ last.outcome.code < StatusInternalServerError )
       => /\ last.w.codes = <<last.outcome.code>>
          /\ last.w.bodies = <<"backend">>
          /\ last.pre.state = StateClosed => breakers[last.s].state = StateClosed
          /\ breakers[last.s].state = StateOpen => last.pre.state = StateOpen
    /\ (last.op = "Complete" /\ last.outcome.kind = "late")
       => /\ last.w.codes = <<last.outcome.code>>
          /\ last.w.bodies = <<"backend">>

C7_Witness ==
    /\ last.op = "Complete"
    /\ last.outcome = [kind |-> "response", code |-> 499]
    /\ maxFailures >= 2
    /\ last.pre.state = StateClosed
    /\ last.pre.failures = maxFailures - 1
    /\ breakers[last.s].state = StateClosed

\* C8: under sequential requests, once maxFailures requests in a row ended in
\* a backend failure (status >= 500, transport error, deadline exceeded) the
\* breaker is Open, and a request that finds it Open within openTimeout is
\* answered 503 without the backend being called.
C8_FailuresOpenThenReject ==
    /\ (last.op = "Complete" /\ run[last.s].bad >= maxFailures)
       => breakers[last.s].state = StateOpen
    /\ ( /\ last.op = "CheckOpen"
         /\ last.pre.state = StateOpen
         /\ last.pre.lastFailTime # ZeroTime
         /\ last.at - last.pre.lastFailTime < OpenTimeout )
       => /\ last.w.codes = <<StatusServiceUnavailable>>
          /\ last.ncalls = 0

C8_Witness ==
    /\ last.op = "CheckOpen"
    /\ maxFailures >= 2
    /\ run[last.s].bad = maxFailures
    /\ last.w.codes = <<StatusServiceUnavailable>>
    /\ last.ncalls = 0

\* C9: a request whose deadline expires before the backend answers is
\* answered 504.
C9_DeadlineAnswers504 ==
    (last.op = "Complete" /\ last.outcome.kind = "deadline")
    => last.w.codes = <<StatusGatewayTimeout>>

\* C10: the caller of a proxied request gets at most one status and one body:
\* after the backend's response or proxy.ErrorHandler wrote, the handler
\* writes no 502/503/504 of its own.
C10_OneResponse ==
    /\ Len(last.w.codes) <= 1
    /\ Len(last.w.bodies) <= 1

C10_Witness ==
    /\ last.op = "Complete"
    /\ last.err = ErrDeadlineExceeded
    /\ last.w.written
    /\ last.w.codes = <<StatusOK>>

\* C13: on a fresh key with burst C, as long as no time has passed since the
\* bucket was built, each of the first C Allow calls is allowed and call C+1
\* is denied with a wait above 0.
C13_BurstThenPositiveWait ==
    \A k \in Keys :
        (hist[k].n >= 1 /\ hist[k].res[1].at = hist[k].born) =>
            /\ hist[k].n <= limiter.burst => hist[k].res[1].allowed
            /\ hist[k].n = limiter.burst + 1 =>
                   ~hist[k].res[1].allowed /\ hist[k].res[1].wait > 0

\* C14: a denied Allow call returns ceil((1 - tokens) / refillRate) seconds
\* for the level after the refill, and the next call on the key, made that
\* many seconds after the denial, is allowed.
C14_WaitIsCeiling ==
    \A k \in Keys :
        /\ (hist[k].n >= 1 /\ ~hist[k].res[1].allowed) =>
               hist[k].res[1].wait =
                   CeilDiv(TokenUnit - hist[k].res[1].level, limiter.rate)
        /\ ( /\ hist[k].n >= 2
             /\ ~hist[k].res[2].allowed
             /\ hist[k].res[1].at = hist[k].res[2].at + hist[k].res[2].wait )
           => hist[k].res[1].allowed

\* the call before the last was made ceil(1/refillRate) seconds after a
\* denied call, the last one right after it
AfterExhaustion(k) ==
    /\ hist[k].n >= 3
    /\ ~hist[k].res[3].allowed
    /\ hist[k].res[2].at = hist[k].res[3].at + CeilDiv(TokenUnit, limiter.rate)
    /\ hist[k].res[1].at = hist[k].res[2].at

\* C15 as stated: ceil(1/refillRate) seconds after a denied call exactly one
\* further call succeeds: the next call is allowed and the one right after
\* it is denied, for every rate and burst. (It fails when the refill brings
\* the level to 2 tokens or more.)
C15_ExactlyOneAfterWait ==
    \A k \in Keys :
        AfterExhaustion(k) =>
            hist[k].res[2].allowed /\ ~hist[k].res[1].allowed

\* C15, amended: ceil(1/refillRate) seconds after a denied call the next
\* call is allowed, for every rate and burst; the call right after it is
\* denied exactly when the level that refill reached,
\* min(capacity, tokens + refillRate * ceil(1/refillRate)), is below 2.
C15_NextAllowedAfterWait ==
    \A k \in Keys :
        /\ ( /\ hist[k].n >= 2
             /\ ~hist[k].res[2].allowed
             /\ hist[k].res[1].at =
                    hist[k].res[2].at + CeilDiv(TokenUnit, limiter.rate) )
           => hist[k].res[1].allowed
        /\ AfterExhaustion(k) =>
               /\ hist[k].res[2].allowed
               /\ ~hist[k].res[1].allowed <=>
                      Min(limiter.burst * TokenUnit,
                          hist[k].res[3].level
                              + limiter.rate * CeilDiv(TokenUnit, limiter.rate))
                          < 2 * TokenUnit

C15_Witness ==
    \E k \in Keys :
        /\ AfterExhaustion(k)
        /\ hist[k].res[3].level > 0
        /\ hist[k].res[2].allowed
        /\ ~hist[k].res[1].allowed

\* C16: whatever the interleaving of first accesses, at most one TokenBucket
\* is built per key and one CircuitBreaker per name, the registry entry is
\* that instance from the moment it is built, and every call that got hold
\* of an instance holds the registered one.
C16_OneInstancePerKey ==
    /\ \A k \in Keys :
        Len(tb[k]) <= 1 /\ limiter.buckets[k] = Len(tb[k])
    /\ \A n \in BreakerNames :
        manager[n].made <= 1 /\ manager[n].entry = manager[n].made
    /\ \A c \in Callers :
        acc[c].pc = "have" =>
            /\ acc[c].ref = 1
            /\ acc[c].on = "limiter" => limiter.buckets[acc[c].key] = acc[c].ref
            /\ acc[c].on = "manager" => manager[acc[c].key].entry = acc[c].ref

C16_Witness ==
    \E k \in Keys :
        /\ acc[1].on = "limiter" /\ acc[1].key = k /\ acc[1].pc = "have"
        /\ acc[2].on = "limiter" /\ acc[2].key = k /\ acc[2].pc = "miss"
        /\ Len(tb[k]) = 1
        /\ hist[k].n = 0

\* C17: of the Allow calls that returned on a key while no time has passed
\* since its bucket was built with C tokens, exactly min(N, C) were allowed,
\* and the bucket holds C minus that many tokens, whatever the interleaving.
C17_AdmitsMinOfCallsAndTokens ==
    \A k \in Keys :
        (hist[k].n >= 1 /\ hist[k].res[1].at = hist[k].born) =>
            /\ hist[k].ok = Min(hist[k].n, limiter.burst)
            /\ \A i \in 1..Len(tb[k]) :
                   tb[k][i].tokens = (limiter.burst - hist[k].ok) * TokenUnit

C17_Witness ==
    \E k \in Keys :
        /\ limiter.burst = 1
        /\ hist[k].n = 2
        /\ hist[k].ok = 1
        /\ hist[k].res[1].at = hist[k].born
        /\ hist[k].res[2].overlap
        /\ hist[k].res[1].overlap

\* the messages the gateway's own error answers carry
GenericMessages ==
    {"Service unavailable", "Request timeout", "Service error",
     "Internal server error", "Missing Authorization header",
     "Invalid Authorization header format", "Rate limit exceeded"}

\* the request ended on a failure path of the dispatcher or of identity
\* extraction
FailurePath(x) ==
    \/ "proxy" \in x.ran /\ StatusOf(x.resp) >= StatusInternalServerError
    \/ "auth" \in x.ran /\ StatusOf(x.resp) = StatusUnauthorized

\* C11: on every failure path (backend status >= 500, transport error,
\* timeout, open circuit, failed identity extraction) the body sent to the
\* caller is one of the gateway's generic messages, never the backend's body
\* or the text of an internal error.
C11_GenericFailureBody ==
    (chain.stage = "done" /\ FailurePath(chain)) =>
        \A i \in 1..Len(chain.resp.bodies) :
            chain.resp.bodies[i] \in GenericMessages

\* C12: every response sent to a caller carries the X-Request-ID header.
C12_ResponseCarriesRequestID ==
    chain.stage = "done" => HasHeader(chain.resp.headers, "X-Request-ID")

\* C18: a request the limiter denies is answered 429 with a Retry-After
\* header holding a whole number of seconds, at least 1, and none of the
\* later stages (identity extraction, handlers, dispatcher) runs for it.
C18_DenialAnswers429 ==
    (chain.stage = "done" /\ chain.consulted /\ ~chain.allowed) =>
        /\ chain.resp.codes = <<StatusTooManyRequests>>
        /\ \E secs \in 1..(TokenUnit + 1) :
               <<"Retry-After", ToString(secs)>> \in chain.resp.headers
        /\ chain.ran = {"recovery", "cors", "logging", "ratelimit"}
        /\ chain.user = ""
        /\ nreq = chain.started
        /\ Idle(ChainCaller)

C18_Witness ==
    /\ chain.stage = "done"
    /\ chain.consulted
    /\ ~chain.allowed
    /\ chain.wait = 0
    /\ chain.rq.auth = "valid"
    /\ <<"Retry-After", "1">> \in chain.resp.headers

\* C19: a request to /health or /ready passes the admission stage without
\* the limiter being called: it is never answered 429 and no bucket is built
\* or changed, also when the bucket of its remote address is empty.
C19_ExemptPathsSkipLimiter ==
    (chain.stage = "done" /\ chain.rq.path \in {"/health", "/ready"}) =>
        /\ ~chain.consulted
        /\ ~chain.moved
        /\ StatusOf(chain.resp) # StatusTooManyRequests
        /\ chain.ran \cap {"health", "ready"} # {}

C19_Witness ==
    /\ chain.stage = "done"
    /\ chain.rq.path = "/ready"
    /\ "ready" \in chain.ran
    /\ Len(tb[chain.rq.remote]) = 1
    /\ tb[chain.rq.remote][1].tokens < TokenUnit

\* C20: the admission stage keys a request that is not exempt by its caller
\* id when the request has one (it carries a valid token), and by its remote
\* address only when it has none.
C20_KeyedByCallerId ==
    (chain.stage # "idle" /\ chain.consulted) =>
        IF chain.rq.auth = "valid"
        THEN chain.key = "user-1"
        ELSE chain.key = chain.rq.remote

C22_PreflightShortCircuits ==
    (chain.stage = "done" /\ chain.rq.method = "OPTIONS") =>
        /\ chain.resp.codes = <<StatusOK>>
        /\ chain.ran = {"recovery", "cors"}
        /\ ~chain.consulted
        /\ ~chain.moved
        /\ chain.user = ""
        /\ nreq = chain.started
        /\ breakers = chain.cb0

C22_Witness ==
    /\ chain.stage = "done"
    /\ chain.rq.method = "OPTIONS"
    /\ chain.resp.codes = <<StatusOK>>
    /\ PreflightHeaders \subseteq chain.resp.headers
    /\ Len(tb[chain.rq.remote]) = 1
    /\ tb[chain.rq.remote][1].tokens < TokenUnit

\* C23: the logging stage emits a log entry for a preflight request the
\* cross-origin stage answered.
C23_PreflightIsLogged ==
    (chain.stage = "done" /\ chain.rq.method = "OPTIONS") =>
        /\ "logging" \in chain.ran
        /\ chain.entry # NoEntry

\* C24: when an inner stage panics, before or after it started writing a
\* response, the caller receives status 500 and the body
\* "Internal server error".
C24_PanicAnswers500 ==
    (chain.stage = "done" /\ chain.panicked) =>
        /\ StatusOf(chain.resp) = StatusInternalServerError
        /\ chain.resp.bodies = <<"Internal server error">>

\* C25: the record the panic boundary logs carries the request id of the
\* request that panicked.
C25_DiagnosticCarriesRequestID ==
    (chain.stage = "done" /\ chain.panicked) =>
        /\ chain.diag # NoDiag
        /\ chain.diag.requestID = chain.rid

\* C26: for every request that reached the logging stage one log entry is
\* emitted, and it carries the status the caller received.
C26_OneLogEntryWithFinalStatus ==
    (chain.stage = "done" /\ "logging" \in chain.ran) =>
        /\ chain.entry # NoEntry
        /\ chain.entry.status = StatusOf(chain.resp)

\* C27: when GET /ready finds a backend healthy, it leaves that backend's
\* breaker Closed with failure count 0, for each of agent, rag and llm and
\* whether the breaker was Open or HalfOpen, a running trial included.
C27_HealthyProbeCloses ==
    last.op = "Ready" =>
        \A s \in last.healthy :
            last.before[s].state \in {StateOpen, StateHalfOpen} =>
                /\ breakers[s].state = StateClosed
                /\ breakers[s].failures = 0

\* C28: POST /gateway/circuit-breaker/reset?service=<name> leaves the named
\* breaker Closed with failure count 0 and answers 200, whatever state the
\* breaker was in; without the service parameter the answer is 400 and no
\* breaker changes.
C28_ResetEndpoint ==
    last.op = "ResetHandler" =>
        IF last.s = ""
        THEN /\ last.w.codes = <<StatusBadRequest>>
             /\ breakers = last.before
        ELSE /\ last.w.codes = <<StatusOK>>
             /\ breakers[last.s].state = StateClosed
             /\ breakers[last.s].failures = 0
             /\ \A s \in Backends \ {last.s} : breakers[s] = last.before[s]

C28_Witness ==
    /\ last.op = "ResetHandler"
    /\ last.s = "rag"
    /\ last.before["rag"].state = StateHalfOpen
    /\ last.before["agent"].state = StateOpen
    /\ \E c \in Callers :
           req[c].pc = "inflight" /\ req[c].svc = "rag" /\ req[c].trial
    /\ last.w.codes = <<StatusOK>>
    /\ breakers["rag"].state = StateClosed

\* C30: an Allow call on one key changes the bucket of no other key, and a
\* request to one backend changes the breaker of no other backend: a bucket
\* changes only in a step of an Allow call on its key, a breaker only in a
\* step of a request to its backend.
C30_KeysAndBackendsIsolated ==
    [][/\ \A k \in Keys :
             (tb'[k] # tb[k] \/ limiter'.buckets[k] # limiter.buckets[k]) =>
                 \E c \in Callers :
                     /\ acc[c].pc # "idle"
                     /\ acc[c].on = "limiter"
                     /\ acc[c].key = k
                     /\ acc'[c] # acc[c]
       /\ \A s \in Backends :
             breakers'[s] # breakers[s] =>
                 \E c \in Callers :
                     /\ req[c].pc # "idle"
                     /\ req[c].svc = s
                     /\ req'[c] # req[c]]_vars

C30_Witness ==
    /\ breakers["agent"].state = StateOpen
    /\ breakers["agent"].failures = MaxThreshold
    /\ breakers["rag"] = NewCircuitBreaker
    /\ breakers["llm"] = NewCircuitBreaker
    /\ hist["10.0.0.1:4001"].n = MaxBurst + 1
    /\ ~hist["10.0.0.1:4001"].res[1].allowed
    /\ Len(tb["user-1"]) = 1
    /\ tb["user-1"][1].tokens = (MaxBurst - 1) * TokenUnit
    /\ hist["user-1"].res[1].at = hist["10.0.0.1:4001"].res[1].at

\* C29: when from some point on every backend operation succeeds, time
\* keeps advancing and calls keep arriving, a breaker that is Open or
\* HalfOpen becomes Closed, with no Reset.
C29_OpenEventuallyCloses ==
    (breakers["agent"].state # StateClosed) ~>
        (breakers["agent"].state = StateClosed)

C29_Witness ==
    /\ last.op = "Complete"
    /\ last.pre.state = StateHalfOpen
    /\ last.err = ErrNil
    /\ breakers["agent"].state = StateClosed
    /\ now >= QuietFrom

\* C32: under concurrent Calls and Resets every change of state a Call makes
\* is Closed to Open (the count reaching maxFailures), Open to HalfOpen (the
\* open timeout elapsed), HalfOpen to Closed (success) or HalfOpen to Open
\* (failure), and Reset leads to Closed; Call never moves a Closed breaker to
\* HalfOpen.
C32_OnlyLegalTransitions ==
    LET pre == last.pre
        post == breakers[last.s]
        CallMoved == /\ last.op \in {"Begin", "CheckOpen", "Complete"}
                     /\ post.state # pre.state IN
    /\ CallMoved =>
          \/ /\ pre.state = StateClosed /\ post.state = StateOpen
             /\ post.failures >= maxFailures
          \/ /\ pre.state = StateOpen /\ post.state = StateHalfOpen
             /\ TimeoutPassed(pre, last.at)
          \/ /\ pre.state = StateHalfOpen /\ post.state = StateClosed
             /\ last.err = ErrNil
          \/ /\ pre.state = StateHalfOpen /\ post.state = StateOpen
             /\ last.err # ErrNil
    /\ last.op = "Reset" => post.state = StateClosed

\* C33: whenever an operation (Call, Reset, ForceHalfOpen) brings the
\* breaker into Closed or HalfOpen from another state, the failure count is
\* 0 right after it.
C33_EnteringResetsCount ==
    ( /\ last.op \in {"Begin", "CheckOpen", "Complete", "Reset", "ForceHalfOpen"}
      /\ breakers[last.s].state # last.pre.state
      /\ breakers[last.s].state \in {StateClosed, StateHalfOpen} )
    => breakers[last.s].failures = 0

\* C34: under sequential calls a successful Call in Closed sets the failure
\* count to 0, the count of a Closed breaker is the number of failing calls
\* since the last success or Reset, and a Closed breaker opens only when
\* that number reaches maxFailures.
C34_SuccessResetsCount ==
    \A s \in Services :
        /\ breakers[s].state = StateClosed =>
               breakers[s].failures = run[s].bad
        /\ ( /\ last.op = "Complete" /\ last.s = s
             /\ last.pre.state = StateClosed /\ last.err = ErrNil )
           => breakers[s] = [last.pre EXCEPT !.failures = 0]
        /\ ( /\ last.op = "Complete" /\ last.s = s
             /\ last.pre.state = StateClosed
             /\ breakers[s].state = StateOpen )
           => run[s].bad = maxFailures

C34_Witness ==
    /\ last.op = "Complete"
    /\ maxFailures = 2
    /\ last.pre.state = StateClosed
    /\ last.pre.failures = 0
    /\ last.pre.lastFailTime # ZeroTime
    /\ last.err # ErrNil
    /\ breakers[last.s].state = StateClosed
    /\ breakers[last.s].failures = 1
    /\ nreq = 3

\* C38 as stated: every downstream 4xx response is reported to the breaker
\* as a success: the failure count is 0 afterwards, and a HalfOpen breaker
\* is Closed. (It fails for a response whose request ran past its deadline.)
C38_AnyClientErrorIsSuccess ==
    ( /\ last.op = "Complete"
      /\ last.outcome.kind \in {"response", "late"}
      /\ last.outcome.code >= StatusBadRequest
      /\ last.outcome.code < StatusInternalServerError )
    => /\ last.err = ErrNil
       /\ breakers[last.s].failures = 0
       /\ last.pre.state = StateHalfOpen => breakers[last.s].state = StateClosed

\* C38, amended: a downstream 4xx response whose request did not run past
\* its deadline is reported to the breaker as a success: the failure count
\* is 0 afterwards, the time of the last failure is kept, and a breaker that
\* was HalfOpen is Closed.
C38_ClientErrorIsSuccess ==
    ( /\ last.op = "Complete"
      /\ last.outcome.kind = "response"
      /\ last.outcome.code >= StatusBadRequest
      /\ last.outcome.code < StatusInternalServerError )
    => /\ last.err = ErrNil
       /\ breakers[last.s].failures = 0
       /\ breakers[last.s].lastFailTime = last.pre.lastFailTime
       /\ last.pre.state = StateHalfOpen => breakers[last.s].state = StateClosed
       /\ last.pre.state # StateHalfOpen => breakers[last.s].state = last.pre.state

C38_Witness ==
    /\ last.op = "Complete"
    /\ last.outcome = [kind |-> "response", code |-> 499]
    /\ last.pre.state = StateHalfOpen
    /\ last.pre.lastFailTime # ZeroTime
    /\ breakers[last.s].state = StateClosed
    /\ breakers[last.s].failures = 0

\* C35: the status the logging stage captured is set by the first response
\* write only: after a first Write or WriteHeader on the wrapper, later
\* WriteHeader calls leave it as it is, so the captured status is the
\* status that was sent.
C35_CapturedStatusIsSentStatus ==
    rw.calls # <<>> =>
        /\ rw.statusCode = rw.sent
        /\ rw.statusCode = IF rw.calls[1] = 0 THEN StatusOK ELSE rw.calls[1]

\* C31: the path forwarded to the backend is the request path without its
\* /api/{service} prefix, "/" when nothing remains (under the path of the
\* backend's URL when that URL has one).
C31_PrefixStripped ==
    LET rest == TrimPrefix(fwd.path, ApiPrefix(fwd.serviceName))
        remainder == IF rest = <<>> THEN Slash ELSE rest IN
    fwd.stage \in {"directed", "sent"} =>
        fwd.url \in {remainder, SingleJoiningSlash(fwd.target, remainder)}

\* C40: the X-User-ID header that reaches the backend is the caller id that
\* identity extraction established, whatever X-User-ID the client sent.
C40_BackendSeesCallerId ==
    fwd.stage = "sent" => fwd.header["X-User-ID"] = fwd.userID

\* C36: whatever requests were served, resets with any service name and
\* reads of the states included, the registry holds one breaker for each of
\* agent, rag and llm and no entry under another name.
C36_RegistryHoldsBackendsOnly ==
    DOMAIN breakers = Backends

\* C37: in every reachable state the level of every bucket is at least 0
\* and at most the bucket's capacity.
C37_LevelWithinCapacity ==
    \A k \in Keys :
        \A i \in 1..Len(tb[k]) :
            /\ tb[k][i].tokens >= 0
            /\ tb[k][i].tokens <= tb[k][i].capacity

\* a call found the bucket refilled to its capacity where the elapsed time
\* was worth more, and spent the last token
C37_Witness ==
    \E k \in Keys :
        /\ Len(tb[k]) = 1
        /\ hist[k].n >= 2
        /\ hist[k].res[2].allowed
        /\ hist[k].res[1].level = tb[k][1].capacity
        /\ hist[k].res[2].level - TokenUnit
             + (hist[k].res[1].at - hist[k].res[2].at) * tb[k][1].rate
           > tb[k][1].capacity
        /\ tb[k][1].tokens = 0

TypeOK ==
    /\ now \in 1..MaxTime
    /\ maxFailures \in 1..MaxThreshold
    /\ \A s \in Services :
        /\ breakers[s].state \in {StateClosed, StateOpen, StateHalfOpen}
        /\ breakers[s].failures \in 0..MaxRequests
        /\ breakers[s].lastFailTime \in 0..MaxTime
    /\ nreq \in 0..MaxRequests
====
